---- MODULE Spec2Model ----
(***************************************************************************)
(* A model of tracing-glog's line renderer: the Glog event formatter       *)
(* (src/src/lib.rs, Glog::format_event), the renderers it calls            *)
(* (src/src/format.rs) and the GlogVisitor field visitor (src/src/lib.rs). *)
(*                                                                         *)
(* The writer is modelled as the sequence `out` of the tokens written so   *)
(* far.  A token is a record [k |-> kind, s |-> text, st |-> step]: the    *)
(* kind records which argument of which write produced the text, the step  *)
(* is the position of the program that wrote it.  One `write!` of the      *)
(* source is one unit: it either appends all of its tokens or fails and    *)
(* appends nothing; a Display implementation that performs several         *)
(* `write!`s is a sequence of units and can fail between any two of them.  *)
(* `fault` records the first failure the call met: "write" when the writer *)
(* rejected a write, "local_offset" when the local offset was not found.   *)
(* `built` is the sequence of builder calls made on the formatter,         *)
(* `srcloc` the file of the event's metadata with the path options of      *)
(* FormatProcessData.                                                      *)
(***************************************************************************)
EXTENDS Integers, Sequences, FiniteSets, TLC

VARIABLES glog, fcfg, ansi, pc, caller, out, ret, fault, chain, si, wrote_open_bracket, fields, vi, visitor,
          built, srcloc, env, prev

vars == <<glog, fcfg, ansi, pc, caller, out, ret, fault, chain, si, wrote_open_bracket, fields, vi, visitor,
          built, srcloc, env, prev>>

(***************************************************************************)
(* Bounds of the model.                                                    *)
(***************************************************************************)
MaxSpans == 3
MaxEventFields == 2
MaxVisitFields == 3
MaxBuilderCalls == 3

(***************************************************************************)
(* Tokens and sequences of tokens.                                         *)
(***************************************************************************)
T(k, s) == [k |-> k, s |-> s]

RECURSIVE Flat(_)
Flat(units) == IF units = <<>> THEN <<>> ELSE Head(units) \o Flat(Tail(units))

\* writing the empty string changes no byte of the output
NonEmpty(toks) == SelectSeq(toks, LAMBDA t : t.s # "")

\* the tokens as the current step writes them
Stamp(toks) == [i \in 1..Len(toks) |-> [k |-> toks[i].k, s |-> toks[i].s, st |-> pc]]

\* the writer after the first k units of `units` were written
Written(units, k) == out \o Stamp(NonEmpty(Flat(SubSeq(units, 1, k))))

Texts(toks) == [i \in 1..Len(toks) |-> toks[i].s]
Kinds(toks) == [i \in 1..Len(toks) |-> toks[i].k]

OfKinds(toks, ks) == SelectSeq(toks, LAMBDA t : t.k \in ks)

(***************************************************************************)
(* nu_ansi_term::Style, reduced to the escape sequences it writes.  With   *)
(* the `ansi` feature off the shim returns "" for all of them.             *)
(***************************************************************************)
StylePrefix(style) == IF style = "plain" THEN "" ELSE "<" \o style \o ">"

StyleSuffix(style) == IF style = "plain" THEN "" ELSE "<reset>"

StyleInfix(from, to) == IF from = to THEN "" ELSE "<reset>" \o StylePrefix(to)

Paint(style, k, text) == <<T("open", StylePrefix(style)), T(k, text), T("close", StyleSuffix(style))>>

(***************************************************************************)
(* Inputs.  A field name is [pre, base]: `pre` is the prefix that          *)
(* starts_with looks at ("log.", "r#" or ""), the name itself is           *)
(* pre \o base.  A field value has a type (the Visit method the host calls *)
(* for it), its text `v`, and for an error the display texts `src` of the  *)
(* chain reached through source(): direct source first.                    *)
(***************************************************************************)
Levels == {"TRACE", "DEBUG", "INFO", "WARN", "ERROR"}

\* the levels of the events that are formatted
EventLevels == {"INFO", "ERROR"}

Timers == {"UtcTime", "LocalTime"}

Name(pre, base) == [pre |-> pre, base |-> base]

FullName(name) == name.pre \o name.base

Field(name, ty, v, src) == [name |-> name, ty |-> ty, v |-> v, src |-> src]

MaxSources == 2

Causes == <<"mid", "root", "deep", "deeper">>

ErrorFields == {Field(Name("", "err"), "error", "outer", SubSeq(Causes, 1, n)) : n \in 0..MaxSources}

MessageStr == Field(Name("", "message"), "str", "could not locate yak", <<>>)
MessageArgs == Field(Name("", "message"), "debug", "shaving yaks", <<>>)
LogMeta == Field(Name("log.", "target"), "str", "yak_shave", <<>>)
RawIdent == Field(Name("r#", "type"), "debug", "7", <<>>)
StrField == Field(Name("", "a"), "str", "hi \"there\"", <<>>)
DebugField == Field(Name("", "a"), "debug", "3", <<>>)

LogLine == Field(Name("log.", "line"), "debug", "42", <<>>)

VisitFieldKinds == {MessageStr, MessageArgs, LogMeta, LogLine, RawIdent, StrField, DebugField} \cup ErrorFields

\* the fields of the events that are formatted: one of each value type
EventFieldKinds == {MessageStr, DebugField, Field(Name("", "err"), "error", "outer", <<"mid">>)}

RECURSIVE SeqsUpTo(_, _)
SeqsUpTo(S, n) == IF n = 0 THEN {<<>>}
                  ELSE LET shorter == SeqsUpTo(S, n - 1)
                       IN shorter \cup {Append(q, x) : q \in shorter, x \in S}

SpanNames == <<"s1", "s2", "s3", "s4", "s5">>

SpanFieldStrs == <<"f1: 1", "f2: 2", "f3: 3", "f4: 4", "f5: 5">>

\* a span: its name and its cached FormattedFields string ("" = no fields)
SpanAt(i, has) == [name |-> SpanNames[i], fields |-> IF has THEN SpanFieldStrs[i] ELSE ""]

\* the span chains: root first, <<>> when there is no current span
Chains == UNION {{[i \in 1..n |-> SpanAt(i, hs[i])] : hs \in [1..n -> BOOLEAN]} : n \in 0..MaxSpans}

GlogConfigs == [timer : Timers, with_span_context : BOOLEAN, with_thread_names : BOOLEAN,
                with_target : BOOLEAN, with_span_names : BOOLEAN]

FieldConfigs == [should_quote_strings : BOOLEAN, use_whitespace_in_field : BOOLEAN]

GlogDefault == [timer |-> "UtcTime", with_thread_names |-> FALSE, with_target |-> FALSE,
                with_span_context |-> TRUE, with_span_names |-> TRUE]

FieldConfigDefault == [should_quote_strings |-> TRUE, use_whitespace_in_field |-> TRUE]

ThreadNames == {"None", "main"}

\* GlogVisitor::new
new(config) == [is_empty |-> TRUE, style |-> "plain", result |-> "Ok", config |-> config]

\* the value of `visitor` while no visitor exists
NoVisitor == new(FieldConfigDefault)

(***************************************************************************)
(* The renderers of format.rs.  Each yields the sequence of units (one     *)
(* unit per `write!`) that its Display implementation performs.            *)
(***************************************************************************)
LevelStr(level) == CASE level = "TRACE" -> "T"
                     [] level = "DEBUG" -> "D"
                     [] level = "INFO" -> "I"
                     [] level = "WARN" -> "W"
                     [] level = "ERROR" -> "E"

LevelColor(level) == CASE level = "TRACE" -> "purple"
                       [] level = "DEBUG" -> "blue"
                       [] level = "INFO" -> "green"
                       [] level = "WARN" -> "yellow"
                       [] level = "ERROR" -> "red"

\* impl Display for FmtLevel
FmtLevel(level, has_ansi) ==
    IF has_ansi THEN <<Paint(LevelColor(level), "level", LevelStr(level))>>
    ELSE <<<<T("level", LevelStr(level))>>>>

\* format_datetime: the instant rendered with the fixed format description
format_datetime(now) == <<T("time", now)>>

\* UtcTime::format_time and LocalTime::format_time after `now` was obtained
format_time(now, has_ansi) ==
    IF has_ansi THEN <<<<T("open", StylePrefix("dimmed"))>>, format_datetime(now),
                       <<T("close", StyleSuffix("dimmed"))>>>>
    ELSE <<format_datetime(now)>>

Pid == " 1234"
Target == "yak_shave"
\* A path is the sequence of its components, "/" standing for the root
\* directory; PathStr is the path as text.
RECURSIVE JoinPath(_)
JoinPath(comps) ==
    IF comps = <<>> THEN ""
    ELSE IF Len(comps) = 1 THEN comps[1]
    ELSE comps[1] \o "/" \o JoinPath(Tail(comps))

PathStr(comps) ==
    IF comps # <<>> /\ Head(comps) = "/" THEN "/" \o JoinPath(Tail(comps)) ELSE JoinPath(comps)

\* Path::file_name: the last component, None for a path that ends in ".."
\* or is the root
file_name(comps) ==
    IF comps = <<>> \/ comps[Len(comps)] \in {"..", "/"} THEN "None" ELSE comps[Len(comps)]

\* Path::strip_prefix: the components after `prefix`, "Err" when `prefix`
\* is not a leading run of components of the path
strip_prefix(comps, prefix) ==
    IF Len(prefix) <= Len(comps) /\ SubSeq(comps, 1, Len(prefix)) = prefix
    THEN SubSeq(comps, Len(prefix) + 1, Len(comps))
    ELSE "Err"

\* a prefix that does not match yields no file at all
FormatFile_NoFallback(file, with_trimmed_directory, with_strip_prefix) ==
    IF file = "None" THEN ""
    ELSE IF with_trimmed_directory
         THEN (IF file_name(file) = "None" THEN PathStr(file) ELSE file_name(file))
    ELSE IF with_strip_prefix # "None"
         THEN (IF strip_prefix(file, with_strip_prefix) = "Err" THEN ""
               ELSE PathStr(strip_prefix(file, with_strip_prefix)))
    ELSE PathStr(file)

\* format.rs:219-238: the file of the location block; `file` and
\* `with_strip_prefix` are "None" or a path
FormatFile(file, with_trimmed_directory, with_strip_prefix) ==
    IF file = "None" THEN ""
    ELSE IF with_trimmed_directory
         THEN (IF file_name(file) = "None" THEN PathStr(file) ELSE file_name(file))
    ELSE IF with_strip_prefix # "None"
         THEN (IF strip_prefix(file, with_strip_prefix) = "Err" THEN PathStr(file)
               ELSE PathStr(strip_prefix(file, with_strip_prefix)))
    ELSE PathStr(file)

\* the metadata of the events that format_event formats, and the path
\* options as long as nothing sets them (lib.rs:287-295 sets neither)
DefaultLoc == [file |-> <<"examples", "yak.rs">>, with_trimmed_directory |-> FALSE,
               with_strip_prefix |-> "None"]

File == FormatFile(DefaultLoc.file, DefaultLoc.with_trimmed_directory, DefaultLoc.with_strip_prefix)
Line == "34"

\* the block closes itself
FormatProcessData_Closes(thread_name, with_thread_names, with_target, has_ansi) ==
    <<<<T("pid", Pid)>>>>
    \o (IF thread_name # "None" /\ with_thread_names
        THEN <<<<T("sp", " "), T("thread", thread_name)>>>> ELSE <<>>)
    \o (IF with_target
        THEN <<<<T("target_open", " ["), T("target", Target), T("target_close", "]")>>>> ELSE <<>>)
    \o <<<<T("sp", " "), T("file", File), T("colon", ":"), T("line", Line), T("loc_close", "] ")>>>>

\* impl Display for FormatProcessData
FormatProcessData(thread_name, with_thread_names, with_target, has_ansi) ==
    LET pid == <<<<T("pid", Pid)>>>>
        thread == IF thread_name # "None" /\ with_thread_names
                  THEN <<<<T("sp", " "), T("thread", thread_name)>>>> ELSE <<>>
        target == IF with_target
                  THEN <<<<T("target_open", " ["), T("target", Target), T("target_close", "]")>>>>
                  ELSE <<>>
        loc == <<<<T("sp", " "), T("file", File), T("colon", ":"), T("line", Line)>>>>
    IN IF has_ansi
       THEN pid \o <<<<T("open", StylePrefix("bold"))>>>> \o thread \o target \o loc
                \o <<<<T("close", StyleSuffix("bold"))>>>>
       ELSE pid \o thread \o target \o loc

\* impl Display for FormatSpanFields.  `fields` is "None" or the cached
\* string.  format_fields is called with a fourth argument
\* (self.with_span_names, lib.rs:332) that the struct does not store and the
\* Display implementation does not read.
FormatSpanFields(span_name, span_fields, has_ansi, with_span_names) ==
    IF has_ansi
    THEN <<Paint("bold", "span_name", span_name)>>
         \o (IF span_fields # "None"
             THEN <<<<T("brace_open", "{")>> \o Paint("italic", "span_fields", span_fields)
                      \o <<T("brace_close", "}")>>>>
             ELSE <<>>)
    ELSE <<<<T("span_name", span_name)>>>>
         \o (IF span_fields # "None"
             THEN <<<<T("brace_open", "{"), T("span_fields", span_fields), T("brace_close", "}")>>>>
             ELSE <<>>)

(***************************************************************************)
(* The field visitor, GlogVisitor (lib.rs).  The operators take the        *)
(* visitor and the writer as st = [vis, out] and return them as the method *)
(* leaves them; `ok` tells whether the method's write succeeds.            *)
(***************************************************************************)
\* <str as Debug>::fmt on the text between the quotes
EscapeDebug(v) == CASE v = "hi \"there\"" -> "hi \\\"there\\\""
                    [] OTHER -> v

DebugStr(v) == <<T("quote", "\""), T("value", EscapeDebug(v)), T("quote", "\"")>>

DisplayStr(v) == <<T("value", v)>>

\* the separator is written before the first value too
write_padded_AlwaysPads(st, value, ok) ==
    [vis |-> [st.vis EXCEPT !.is_empty = FALSE, !.result = IF ok THEN "Ok" ELSE "Err"],
     out |-> IF ok THEN st.out \o Stamp(NonEmpty(<<T("sep", ", ")>> \o value)) ELSE st.out,
     fault |-> IF ok \/ st.fault # "none" THEN st.fault ELSE "write"]

write_padded(st, value, ok) ==
    LET padding == IF st.vis.is_empty THEN "" ELSE ", "
    IN [vis |-> [st.vis EXCEPT !.is_empty = FALSE, !.result = IF ok THEN "Ok" ELSE "Err"],
        out |-> IF ok THEN st.out \o Stamp(NonEmpty(<<T("sep", padding)>> \o value)) ELSE st.out,
        fault |-> IF ok \/ st.fault # "none" THEN st.fault ELSE "write"]

\* GlogVisitor::bold
bold(st, has_ansi) == IF has_ansi THEN "bold" ELSE "plain"

\* the bold of the name is never left
write_field_NoInfix(st, name, value, has_ansi, ok) ==
    LET b == bold(st, has_ansi)
        label == <<T("open", StylePrefix(b)), T("name", name)>>
    IN IF st.vis.config.use_whitespace_in_field
       THEN write_padded(st, label \o <<T("kv", ": ")>> \o value, ok)
       ELSE write_padded(st, label \o <<T("kv", ":")>> \o value, ok)

write_field(st, name, value, has_ansi, ok) ==
    LET b == bold(st, has_ansi)
        label == <<T("open", StylePrefix(b)), T("name", name), T("close", StyleInfix(b, st.vis.style))>>
    IN IF st.vis.config.use_whitespace_in_field
       THEN write_padded(st, label \o <<T("kv", ": ")>> \o value, ok)
       ELSE write_padded(st, label \o <<T("kv", ":")>> \o value, ok)

\* the message is written as a labelled field
record_debug_LabelsMessage(st, field, value, has_ansi, ok) ==
    IF st.vis.result = "Err" THEN st
    ELSE IF field.name.pre = "log." THEN [st EXCEPT !.vis.result = "Ok"]
    ELSE IF field.name.pre = "r#" THEN write_field(st, field.name.base, value, has_ansi, ok)
    ELSE write_field(st, FullName(field.name), value, has_ansi, ok)

\* a raw identifier is dropped like log metadata
record_debug_DropsRaw(st, field, value, has_ansi, ok) ==
    IF st.vis.result = "Err" THEN st
    ELSE IF FullName(field.name) = "message"
         THEN write_padded(st, <<T("open", StylePrefix(st.vis.style))>> \o value, ok)
    ELSE IF field.name.pre \in {"log.", "r#"} THEN [st EXCEPT !.vis.result = "Ok"]
    ELSE write_field(st, FullName(field.name), value, has_ansi, ok)

\* a field is written whatever the stored result is
record_debug_NoErrCheck(st, field, value, has_ansi, ok) ==
    IF FullName(field.name) = "message"
    THEN write_padded(st, <<T("open", StylePrefix(st.vis.style))>> \o value, ok)
    ELSE IF field.name.pre = "log." THEN st
    ELSE IF field.name.pre = "r#" THEN write_field(st, field.name.base, value, has_ansi, ok)
    ELSE write_field(st, FullName(field.name), value, has_ansi, ok)

\* log metadata is recognised before the stored result is looked at
record_debug_MetaFirst(st, field, value, has_ansi, ok) ==
    IF field.name.pre = "log." THEN [st EXCEPT !.vis.result = "Ok"]
    ELSE IF st.vis.result = "Err" THEN st
    ELSE IF FullName(field.name) = "message"
         THEN write_padded(st, <<T("open", StylePrefix(st.vis.style))>> \o value, ok)
    ELSE IF field.name.pre = "r#" THEN write_field(st, field.name.base, value, has_ansi, ok)
    ELSE write_field(st, FullName(field.name), value, has_ansi, ok)

record_debug(st, field, value, has_ansi, ok) ==
    IF st.vis.result = "Err" THEN st
    ELSE IF FullName(field.name) = "message"
         THEN write_padded(st, <<T("open", StylePrefix(st.vis.style))>> \o value, ok)
    ELSE IF field.name.pre = "log." THEN [st EXCEPT !.vis.result = "Ok"]
    ELSE IF field.name.pre = "r#" THEN write_field(st, field.name.base, value, has_ansi, ok)
    ELSE write_field(st, FullName(field.name), value, has_ansi, ok)

\* every string is debug-quoted, whatever should_quote_strings says
record_str_AlwaysQuotes(st, field, has_ansi, ok) ==
    IF st.vis.result = "Err" THEN st
    ELSE IF FullName(field.name) = "message"
         THEN record_debug(st, field, DisplayStr(field.v), has_ansi, ok)
    ELSE record_debug(st, field, DebugStr(field.v), has_ansi, ok)

record_str(st, field, has_ansi, ok) ==
    IF st.vis.result = "Err" THEN st
    ELSE IF FullName(field.name) = "message"
         THEN record_debug(st, field, DisplayStr(field.v), has_ansi, ok)
    ELSE IF st.vis.config.should_quote_strings
         THEN record_debug(st, field, DebugStr(field.v), has_ansi, ok)
    ELSE record_debug(st, field, DisplayStr(field.v), has_ansi, ok)

\* impl Display for ErrorSourceList: `errs` is the chain that starts at the
\* error the list was built from; the loop follows source() until None
RECURSIVE ErrorSourceEntries(_)
ErrorSourceEntries(errs) ==
    IF errs = <<>> THEN <<>>
    ELSE <<T("cause", Head(errs))>>
         \o (IF Tail(errs) = <<>> THEN <<>> ELSE <<T("cause_sep", ", ")>>)
         \o ErrorSourceEntries(Tail(errs))

\* the list stops after the direct source
ErrorSourceList_DirectOnly(errs) ==
    <<T("list_open", "["), T("cause", Head(errs)), T("list_close", "]")>>

ErrorSourceList(errs) == <<T("list_open", "[")>> \o ErrorSourceEntries(errs) \o <<T("list_close", "]")>>

record_error(st, field, has_ansi, ok) ==
    IF field.src # <<>>
    THEN record_debug(st, field,
                      <<T("value", field.v), T("sources_sep", ", "), T("sources_name", FullName(field.name)),
                        T("sources_label", ".sources: ")>> \o ErrorSourceList(field.src),
                      has_ansi, ok)
    ELSE record_debug(st, field, DisplayStr(field.v), has_ansi, ok)

\* finish ends the line
finish_Writeln(st, ok) ==
    IF ok THEN [out |-> st.out \o Stamp(NonEmpty(<<T("close", StyleSuffix(st.vis.style)), T("newline", "\n")>>)),
                ret |-> st.vis.result, fault |-> st.fault]
    ELSE [out |-> st.out, ret |-> "Err", fault |-> IF st.fault # "none" THEN st.fault ELSE "write"]

finish(st, ok) ==
    IF ok THEN [out |-> st.out \o Stamp(NonEmpty(<<T("close", StyleSuffix(st.vis.style))>>)),
                ret |-> st.vis.result, fault |-> st.fault]
    ELSE [out |-> st.out, ret |-> "Err", fault |-> IF st.fault # "none" THEN st.fault ELSE "write"]

VisitorState == [vis |-> visitor, out |-> out, fault |-> fault]

Visit(st) ==
    /\ visitor' = st.vis
    /\ out' = st.out
    /\ fault' = st.fault
    /\ vi' = vi + 1
    /\ UNCHANGED <<env, prev, built, srcloc, glog, fcfg, ansi, pc, caller, ret, chain, si, wrote_open_bracket, fields>>

\* the host visits the next field, a string
RecordStr ==
    /\ pc = "visit" /\ vi <= Len(fields) /\ fields[vi].ty = "str"
    /\ \E ok \in BOOLEAN : Visit(record_str(VisitorState, fields[vi], ansi, ok))

\* the host visits the next field, an error
RecordError ==
    /\ pc = "visit" /\ vi <= Len(fields) /\ fields[vi].ty = "error"
    /\ \E ok \in BOOLEAN : Visit(record_error(VisitorState, fields[vi], ansi, ok))

\* the host visits the next field, a value of any other type
RecordDebug ==
    /\ pc = "visit" /\ vi <= Len(fields) /\ fields[vi].ty = "debug"
    /\ \E ok \in BOOLEAN : Visit(record_debug(VisitorState, fields[vi], DisplayStr(fields[vi].v), ansi, ok))

\* every field was visited: finish, and return to format_fields' caller
\* (format_event propagates an Err with `?`, lib.rs:355)
Finish ==
    /\ pc = "visit" /\ vi > Len(fields)
    /\ \E ok \in BOOLEAN :
         LET r == finish(VisitorState, ok)
         IN /\ out' = r.out
            /\ fault' = r.fault
            /\ IF caller = "format_event" /\ r.ret = "Ok"
               THEN pc' = "newline" /\ ret' = ret
               ELSE pc' = "done" /\ ret' = r.ret
    /\ UNCHANGED <<env, prev, built, srcloc, glog, fcfg, ansi, caller, chain, si, wrote_open_bracket, fields, vi, visitor>>

(***************************************************************************)
(* Glog::format_event (lib.rs:260-357), one action per step.  Of the units *)
(* of a step the first k are written; k short of all of them is a failed   *)
(* write, which `?` turns into the call's return value.                    *)
(***************************************************************************)
\* what a call reads from its surroundings, "none" until it is read
NoEnv == [level |-> "none", offset |-> "none", thread_name |-> "none"]

\* the record of an earlier call with the same arguments, if there was one
NoPrev == [done |-> FALSE, env |-> NoEnv, chain |-> <<>>, fields |-> <<>>, fcfg |-> FieldConfigDefault,
           out |-> <<>>, ret |-> "none"]

\* the arguments and surroundings of a call: any, and those of the earlier
\* call when the call is made again
LevelChoices == IF prev.done THEN {prev.env.level} ELSE EventLevels

OffsetChoices == IF prev.done THEN {prev.env.offset} ELSE {"Ok", "Err"}

ThreadNameChoices == IF prev.done THEN {prev.env.thread_name} ELSE ThreadNames

ChainChoices == IF prev.done THEN {prev.chain} ELSE Chains

FieldConfigChoices == IF prev.done THEN {prev.fcfg} ELSE FieldConfigs

FieldsChoices == IF prev.done THEN {prev.fields} ELSE SeqsUpTo(EventFieldKinds, MaxEventFields)

\* a failed write does not end the call
Step_IgnoresFailure(units, k, next) ==
    /\ out' = Written(units, k)
    /\ pc' = next /\ ret' = ret
    /\ fault' = IF k = Len(units) THEN fault ELSE "write"

Step(units, k, next) ==
    /\ out' = Written(units, k)
    /\ IF k = Len(units) THEN pc' = next /\ ret' = ret /\ fault' = fault
       ELSE pc' = "done" /\ ret' = "Err" /\ fault' = "write"

\* lib.rs:266-270
WriteLevel ==
    /\ pc = "level"
    /\ \E level \in LevelChoices :
         LET units == FmtLevel(level, ansi)
         IN /\ env' = [env EXCEPT !.level = level]
            /\ \E k \in 0..Len(units) : Step(units, k, "time")
    /\ UNCHANGED <<prev, built, srcloc, glog, fcfg, ansi, caller, chain, si, wrote_open_bracket, fields, vi, visitor>>

\* lib.rs:273 with T = UtcTime
UtcFormatTime ==
    /\ pc = "time" /\ glog.timer = "UtcTime"
    /\ LET units == format_time("utc_now", ansi)
       IN \E k \in 0..Len(units) : Step(units, k, "process")
    /\ UNCHANGED <<env, prev, built, srcloc, glog, fcfg, ansi, caller, chain, si, wrote_open_bracket, fields, vi, visitor>>

\* the local instant, the UTC instant when the offset is not found
now_local_or_utc(offset) == IF offset = "Err" THEN "utc_now" ELSE "local_now"

\* OffsetDateTime::now_local().map_err(|_| fmt::Error): `offset` tells
\* whether the local offset was found
now_local(offset) == IF offset = "Err" THEN "Err" ELSE "local_now"

\* lib.rs:273 with T = LocalTime
LocalFormatTime ==
    /\ pc = "time" /\ glog.timer = "LocalTime"
    /\ \E offset \in OffsetChoices :
         LET now == now_local(offset)
             units == format_time(now, ansi)
         IN /\ env' = [env EXCEPT !.offset = offset]
            /\ IF now = "Err"
               THEN out' = out /\ pc' = "done" /\ ret' = "Err" /\ fault' = "local_offset"
               ELSE \E k \in 0..Len(units) : Step(units, k, "process")
    /\ UNCHANGED <<prev, built, srcloc, glog, fcfg, ansi, caller, chain, si, wrote_open_bracket, fields, vi, visitor>>

\* lib.rs:276-296
WriteProcessData ==
    /\ pc = "process"
    /\ \E thread_name \in ThreadNameChoices :
         LET units == FormatProcessData(thread_name, glog.with_thread_names, glog.with_target, ansi)
                      \o <<<<T("loc_close", "] ")>>>>
         IN /\ env' = [env EXCEPT !.thread_name = thread_name]
            /\ \E k \in 0..Len(units) : Step(units, k, "spans")
    /\ UNCHANGED <<prev, built, srcloc, glog, fcfg, ansi, caller, chain, si, wrote_open_bracket, fields, vi, visitor>>

\* wrote_open_bracket outlives the call
LookupSpans_KeepsBracket ==
    /\ pc = "spans"
    /\ IF glog.with_span_context
       THEN \E c \in ChainChoices :
              /\ chain' = c
              /\ IF c = <<>> THEN pc' = "fields" /\ UNCHANGED <<si, wrote_open_bracket>>
                 ELSE pc' = "span_loop" /\ si' = 1 /\ wrote_open_bracket' = wrote_open_bracket
       ELSE pc' = "fields" /\ UNCHANGED <<chain, si, wrote_open_bracket>>
    /\ UNCHANGED <<env, prev, built, srcloc, glog, fcfg, ansi, caller, out, ret, fault, fields, vi, visitor>>

\* lib.rs:298-309: the span context is looked up only when it is enabled
LookupSpans ==
    /\ pc = "spans"
    /\ IF glog.with_span_context
       THEN \E c \in ChainChoices :
              /\ chain' = c
              /\ IF c = <<>> THEN pc' = "fields" /\ UNCHANGED <<si, wrote_open_bracket>>
                 ELSE pc' = "span_loop" /\ si' = 1 /\ wrote_open_bracket' = FALSE
       ELSE pc' = "fields" /\ UNCHANGED <<chain, si, wrote_open_bracket>>
    /\ UNCHANGED <<env, prev, built, srcloc, glog, fcfg, ansi, caller, out, ret, fault, fields, vi, visitor>>

\* lib.rs:311-320: the cached fields of a span, None when empty
CachedFields(span) == IF span.fields # "" THEN span.fields ELSE "None"

\* every span is written
Contributes_Always(span) == TRUE

\* lib.rs:322
Contributes(span) == glog.with_span_names \/ CachedFields(span) # "None"

\* lib.rs:310-349: one iteration of the loop, on the span chain[si]
SpanLoop ==
    /\ pc = "span_loop"
    /\ LET span == chain[si]
           more == si < Len(chain)
           opened == wrote_open_bracket \/ Contributes(span)
           body == IF Contributes(span)
                   THEN (IF ~wrote_open_bracket THEN <<<<T("span_open", "[")>>>> ELSE <<>>)
                        \o FormatSpanFields(span.name, CachedFields(span), ansi, glog.with_span_names)
                   ELSE <<>>
           sep == IF more /\ opened THEN <<<<T("span_sep", ", ")>>>> ELSE <<>>
           units == body \o sep
       IN /\ wrote_open_bracket' = opened
          /\ si' = IF more THEN si + 1 ELSE si
          /\ \E k \in 0..Len(units) : Step(units, k, IF more THEN "span_loop" ELSE "span_close")
    /\ UNCHANGED <<env, prev, built, srcloc, glog, fcfg, ansi, caller, chain, fields, vi, visitor>>

\* the group is closed whether or not it was opened
SpanClose_Always ==
    /\ pc = "span_close"
    /\ LET units == <<<<T("span_close", "] ")>>>>
       IN \E k \in 0..Len(units) : Step(units, k, "fields")
    /\ UNCHANGED <<env, prev, built, srcloc, glog, fcfg, ansi, caller, chain, si, wrote_open_bracket, fields, vi, visitor>>

\* lib.rs:350-352
SpanClose ==
    /\ pc = "span_close"
    /\ LET units == IF wrote_open_bracket THEN <<<<T("span_close", "] ")>>>> ELSE <<>>
       IN \E k \in 0..Len(units) : Step(units, k, "fields")
    /\ UNCHANGED <<env, prev, built, srcloc, glog, fcfg, ansi, caller, chain, si, wrote_open_bracket, fields, vi, visitor>>

\* lib.rs:355: ctx.field_format() is the GlogFields the subscriber was built
\* with, in any configuration; its format_fields makes a visitor on the
\* writer (lib.rs:412-414) and has the event record its fields into it
FormatFields ==
    /\ pc = "fields"
    /\ \E fc \in FieldConfigChoices, fs \in FieldsChoices :
         /\ fcfg' = fc
         /\ fields' = fs
         /\ vi' = 1
         /\ visitor' = new(fc)
         /\ pc' = "visit"
    /\ UNCHANGED <<env, prev, built, srcloc, glog, ansi, caller, out, ret, fault, chain, si, wrote_open_bracket>>

\* lib.rs:356
WriteLn ==
    /\ pc = "newline"
    /\ \E ok \in BOOLEAN :
         IF ok THEN out' = Written(<<<<T("newline", "\n")>>>>, 1) /\ ret' = "Ok" /\ fault' = fault
         ELSE out' = out /\ ret' = "Err" /\ fault' = "write"
    /\ pc' = "done"
    /\ UNCHANGED <<env, prev, built, srcloc, glog, fcfg, ansi, caller, chain, si, wrote_open_bracket, fields, vi, visitor>>

(***************************************************************************)
(* Spec: one call of format_event, for every formatter configuration.      *)
(***************************************************************************)
Init ==
    /\ glog \in GlogConfigs
    /\ fcfg = FieldConfigDefault
    /\ ansi \in BOOLEAN
    /\ pc = "level"
    /\ caller = "format_event"
    /\ out = <<>>
    /\ ret = "none"
    /\ fault = "none"
    /\ chain = <<>>
    /\ si = 0
    /\ wrote_open_bracket = FALSE
    /\ fields = <<>>
    /\ vi = 0
    /\ visitor = NoVisitor
    /\ built = <<>>
    /\ srcloc = DefaultLoc
    /\ env = NoEnv
    /\ prev = NoPrev

Next ==
    \/ WriteLevel
    \/ UtcFormatTime
    \/ LocalFormatTime
    \/ WriteProcessData
    \/ LookupSpans
    \/ SpanLoop
    \/ SpanClose
    \/ FormatFields
    \/ RecordStr
    \/ RecordError
    \/ RecordDebug
    \/ Finish
    \/ WriteLn

Spec == Init /\ [][Next]_vars

(***************************************************************************)
(* SpecVisitor: one call of GlogFields' format_fields on an empty writer,  *)
(* as the host makes it to render a span's fields; the state after         *)
(* GlogVisitor::new, for every field configuration and field sequence.     *)
(***************************************************************************)
InitVisitor ==
    /\ glog = GlogDefault
    /\ fcfg \in FieldConfigs
    /\ ansi \in BOOLEAN
    /\ pc = "visit"
    /\ caller = "format_fields"
    /\ out = <<>>
    /\ ret = "none"
    /\ fault = "none"
    /\ chain = <<>>
    /\ si = 0
    /\ wrote_open_bracket = FALSE
    /\ fields \in SeqsUpTo(VisitFieldKinds, MaxVisitFields)
    /\ vi = 1
    /\ visitor = new(fcfg)
    /\ built = <<>>
    /\ srcloc = DefaultLoc
    /\ env = NoEnv
    /\ prev = NoPrev

NextVisitor ==
    \/ RecordStr
    \/ RecordError
    \/ RecordDebug
    \/ Finish

SpecVisitor == InitVisitor /\ [][NextVisitor]_vars

(***************************************************************************)
(* Properties of format_event, checked under Spec.                         *)
(***************************************************************************)
\* format_event has returned Ok
FormatOk == caller = "format_event" /\ pc = "done" /\ ret = "Ok"

\* format_event is past the span context (lib.rs:354)
SpanContextDone == caller = "format_event" /\ (pc \in {"fields", "visit", "newline"} \/ FormatOk)

SpanSteps == {"span_loop", "span_close"}

\* the texts written between the location's "] " and the event's fields
SpanGroup == Texts(SelectSeq(out, LAMBDA t : t.st \in SpanSteps))

RECURSIVE JoinSeqs(_, _)
JoinSeqs(parts, sep) ==
    IF parts = <<>> THEN <<>>
    ELSE IF Len(parts) = 1 THEN parts[1]
    ELSE parts[1] \o <<sep>> \o JoinSeqs(Tail(parts), sep)

SpanRendering(span) ==
    Texts(NonEmpty(Flat(FormatSpanFields(span.name, CachedFields(span), ansi, glog.with_span_names))))

IsContributing(span) == glog.with_span_names \/ span.fields # ""

ExpectedSpanGroup(c) ==
    LET contributing == SelectSeq(c, IsContributing)
    IN IF contributing = <<>> THEN <<>>
       ELSE <<"[">> \o JoinSeqs([i \in 1..Len(contributing) |-> SpanRendering(contributing[i])], ", ")
            \o <<"] ">>

\* C1: once the span context is written, the span group is exactly the
\* renderings of the contributing spans of the chain, root first, joined by
\* single ", " separators inside "[" and "] ": a span that contributes
\* nothing adds no separator.
C1_SpanGroupIsJoinOfContributing ==
    SpanContextDone /\ glog.with_span_context => SpanGroup = ExpectedSpanGroup(chain)

\* C3: the span group is absent (no "[" and no "] " between the location's
\* "] " and the fields) when with_span_context is false, when there is no
\* current span, and when names are disabled and every span of the chain has
\* an empty cached field string.
C3_SpanGroupAbsent ==
    SpanContextDone
    /\ (~glog.with_span_context
        \/ chain = <<>>
        \/ (~glog.with_span_names /\ \A i \in 1..Len(chain) : chain[i].fields = ""))
    => /\ SpanGroup = <<>>
       /\ \A i \in 1..Len(out) :
            out[i].k = "loc_close" => (i = Len(out) \/ out[i + 1].s \notin {"[", "] "})

C3_Witness ==
    /\ FormatOk /\ glog.with_span_context /\ ~glog.with_span_names
    /\ Len(chain) >= 2 /\ \A i \in 1..Len(chain) : chain[i].fields = ""
    /\ fields # <<>>

\* C4: no step before the last writes a line terminator, and a call that
\* returns Ok has written exactly one, as the last thing written.
C4_OneTerminatorLast ==
    /\ \A i \in 1..Len(out) :
         (out[i].k = "newline" \/ out[i].s = "\n") => (i = Len(out) /\ pc = "done")
    /\ FormatOk => (out # <<>> /\ out[Len(out)].s = "\n")

C4_Witness == FormatOk /\ chain # <<>> /\ Len(fields) >= 2 /\ out[Len(out)].s = "\n"

StepRank(st) == CASE st = "level" -> 1
                  [] st = "time" -> 2
                  [] st = "process" -> 3
                  [] st = "span_loop" -> 4
                  [] st = "span_close" -> 4
                  [] st = "visit" -> 5
                  [] st = "newline" -> 6

CountKind(k) == Cardinality({i \in 1..Len(out) : out[i].k = k})

\* C5: a call that returns Ok has written, in this order, the severity
\* character, the timestamp, the process/location block closed by exactly one
\* "] ", the span group (only if enabled and non-empty), the event's fields,
\* and the line terminator; the "] " is there also without spans and fields.
C5_FixedOrder ==
    FormatOk =>
      /\ \A i \in 1..(Len(out) - 1) : StepRank(out[i].st) <= StepRank(out[i + 1].st)
      /\ CountKind("level") = 1 /\ CountKind("time") = 1 /\ CountKind("pid") = 1
      /\ CountKind("file") = 1 /\ CountKind("loc_close") = 1 /\ CountKind("newline") = 1
      /\ \A i \in 1..Len(out) :
           /\ out[i].k = "level" => out[i].st = "level"
           /\ out[i].k = "time" => out[i].st = "time"
           /\ out[i].k \in {"pid", "file"} => out[i].st = "process"
           /\ out[i].k = "loc_close" =>
                out[i].s = "] " /\ out[i].st = "process" /\ out[i + 1].st # "process"
           /\ out[i].k \in {"sep", "name", "value"} => out[i].st = "visit"
      /\ (SpanGroup # <<>> => glog.with_span_context /\ chain # <<>>)

C5_Witness == FormatOk /\ chain = <<>> /\ fields = <<>> /\ CountKind("loc_close") = 1

\* C7: with with_span_names false, a span with a non-empty cached field
\* string is rendered as that string alone: no span name and no "{" "}" is
\* written for it.
C7_BareFieldsWithoutNames ==
    SpanContextDone /\ ~glog.with_span_names =>
      \A i \in 1..Len(out) : out[i].k \notin {"span_name", "brace_open", "brace_close"}

C9_AbortOnFailedWrite ==
    [][/\ fault = "write" => out' = out
       /\ fault' = "write" =>
            /\ (pc' = "done" /\ ret' = "Err") \/ (pc' = "visit" /\ visitor'.result = "Err")
            /\ \A i \in 1..Len(out') : out'[i].k # "newline"]_vars

C9_Witness ==
    /\ caller = "format_event" /\ fault = "write" /\ pc = "done" /\ ret = "Err"
    /\ visitor.result = "Err" /\ Len(fields) >= 2 /\ vi > Len(fields)

(***************************************************************************)
(* Properties of the field visitor, checked under SpecVisitor.             *)
(***************************************************************************)
\* format_fields has returned Ok
VisitOk == caller = "format_fields" /\ pc = "done" /\ ret = "Ok"

IsMessage(f) == FullName(f.name) = "message"

IsMetadata(f) == f.name.pre = "log."

\* the fields that are not dropped as log metadata
Kept(fs) == SelectSeq(fs, LAMBDA f : ~IsMetadata(f))

Label(f) == IF f.name.pre = "r#" THEN f.name.base ELSE FullName(f.name)

\* the tokens without the style tokens
Plain(toks) == SelectSeq(toks, LAMBDA t : t.k \notin {"open", "close"})

RECURSIVE SplitAtSep(_)
SplitAtSep(toks) ==
    IF toks = <<>> THEN <<<<>>>>
    ELSE LET rest == SplitAtSep(Tail(toks))
         IN IF Head(toks).k = "sep" THEN <<<<>>>> \o rest
            ELSE <<<<Head(toks)>> \o rest[1]>> \o Tail(rest)

\* the output cut at the separators that write_padded wrote
Items(toks) == IF toks = <<>> THEN <<>> ELSE SplitAtSep(toks)

FirstMessage(fs) == fs[CHOOSE i \in 1..Len(fs) : IsMessage(fs[i]) /\ \A j \in 1..(i - 1) : ~IsMessage(fs[j])]

C6_FieldOrderPreserved ==
    VisitOk =>
      LET kept == Kept(fields)
          items == Items(out)
      IN /\ Len(items) = Len(kept)
         /\ \A j \in 1..Len(kept) :
              ~IsMessage(kept[j]) =>
                LET it == Plain(items[j])
                    values == OfKinds(it, {"value"})
                IN /\ Len(it) >= 3
                   /\ it[1].k = "name" /\ it[1].s = Label(kept[j])
                   /\ it[2].k = "kv"
                   /\ Len(OfKinds(it, {"name"})) = 1 /\ Len(values) = 1
                   /\ values[1].s \in {kept[j].v, EscapeDebug(kept[j].v)}

C6_Witness ==
    /\ VisitOk /\ Len(fields) = 3
    /\ \A i \in 1..3 : ~IsMessage(fields[i]) /\ ~IsMetadata(fields[i])
    /\ fields[1].name = fields[3].name /\ fields[1].v # fields[3].v
    /\ Len(OfKinds(out, {"name"})) = 3

ExpectedError(f) ==
    IF f.src = <<>> THEN <<f.v>>
    ELSE <<f.v, ", ", FullName(f.name), ".sources: ", "[">>
         \o JoinSeqs([i \in 1..Len(f.src) |-> <<f.src[i]>>], ", ") \o <<"]">>

\* C10: an error field renders as the error's display text, followed, when
\* the error has a source, by `, <field name>.sources: [c1, c2, ...]` listing
\* every cause once, from the direct source to the first cause without a
\* source, and not the error itself; without a source, the text alone.
C10_ErrorSources ==
    VisitOk =>
      LET kept == Kept(fields)
          items == Items(out)
      IN /\ Len(items) = Len(kept)
         /\ \A j \in 1..Len(kept) :
              kept[j].ty = "error" =>
                LET it == Texts(Plain(items[j]))
                IN SubSeq(it, 3, Len(it)) = ExpectedError(kept[j])

C10_Witness ==
    /\ VisitOk
    /\ \E i \in 1..Len(fields) : fields[i].ty = "error" /\ Len(fields[i].src) = 2
    /\ \E i \in 1..Len(out) : out[i].k = "cause" /\ out[i].s = "root"

\* the texts of an item after its label and its colon
ValueTexts(item) == LET it == Texts(Plain(item)) IN SubSeq(it, 3, Len(it))

\* C11: a string field not named `message` is rendered debug-quoted when
\* should_quote_strings is true and as its bare text when it is false; a
\* string `message` is rendered unquoted under both settings.
C11_QuotingToggle ==
    VisitOk =>
      LET kept == Kept(fields)
          items == Items(out)
      IN /\ Len(items) = Len(kept)
         /\ \A j \in 1..Len(kept) :
              kept[j].ty = "str" =>
                IF IsMessage(kept[j]) THEN Texts(Plain(items[j])) = <<kept[j].v>>
                ELSE IF fcfg.should_quote_strings
                     THEN ValueTexts(items[j]) = <<"\"", EscapeDebug(kept[j].v), "\"">>
                ELSE ValueTexts(items[j]) = <<kept[j].v>>

C11_Witness ==
    /\ VisitOk /\ ~fcfg.should_quote_strings
    /\ \E i, j \in 1..Len(fields) : fields[i] = StrField /\ fields[j] = MessageStr
    /\ \A i \in 1..Len(out) : out[i].k # "quote"

\* the style tokens of the line, in the order written
StyleTokens == OfKinds(out, {"open", "close"})

\* C12: in a line rendered successfully every style-open token is followed,
\* before the next open and before the line terminator, by its close token,
\* and no close token comes without an open before it; without styling no
\* style token is written at all.
C12_StylesBalanced ==
    FormatOk =>
      LET sty == StyleTokens
      IN /\ ~ansi => sty = <<>>
         /\ Len(sty) % 2 = 0
         /\ \A i \in 1..Len(sty) :
              IF i % 2 = 1 THEN sty[i].k = "open" /\ sty[i].s # "<reset>"
              ELSE sty[i].k = "close" /\ sty[i].s = "<reset>"
         /\ out[Len(out)].k = "newline"

C12_Witness ==
    /\ FormatOk /\ ansi
    /\ \E i \in 1..Len(out) : out[i].k = "name"
    /\ \E i \in 1..Len(out) : out[i].k = "span_fields"
    /\ \E i \in 1..Len(out) : out[i].k = "open" /\ out[i].s = "<italic>"
    /\ Len(StyleTokens) >= 10

(***************************************************************************)
(* SpecFields: a GlogFields is built from GlogFields::default() by builder *)
(* calls and then formats one field.                                       *)
(***************************************************************************)
Call(m, a) == [m |-> m, a |-> a]

\* GlogFields::should_quote_strings
should_quote_strings(config, value) == [config EXCEPT !.should_quote_strings = value]

\* GlogFields::use_whitespace_in_field
use_whitespace_in_field(config, value) == [config EXCEPT !.use_whitespace_in_field = value]

\* GlogFields::compact
compact(config) == use_whitespace_in_field(should_quote_strings(config, FALSE), FALSE)

BuildFields(config, calls) ==
    /\ pc = "build_fields"
    /\ Len(built) + Len(calls) <= MaxBuilderCalls
    /\ fcfg' = config
    /\ built' = built \o calls
    /\ UNCHANGED <<env, prev, srcloc, glog, ansi, pc, caller, out, ret, fault, chain, si, wrote_open_bracket,
                   fields, vi, visitor>>

ShouldQuoteStrings ==
    \E value \in BOOLEAN :
      BuildFields(should_quote_strings(fcfg, value), <<Call("should_quote_strings", value)>>)

UseWhitespaceInField ==
    \E value \in BOOLEAN :
      BuildFields(use_whitespace_in_field(fcfg, value), <<Call("use_whitespace_in_field", value)>>)

\* compact calls the two setters
Compact ==
    BuildFields(compact(fcfg), <<Call("should_quote_strings", FALSE), Call("use_whitespace_in_field", FALSE)>>)

\* lib.rs:408-414: the host has the GlogFields format one field
MakeVisitor ==
    /\ pc = "build_fields"
    /\ \E f \in EventFieldKinds : fields' = <<f>>
    /\ vi' = 1
    /\ visitor' = new(fcfg)
    /\ pc' = "visit"
    /\ UNCHANGED <<env, prev, built, srcloc, glog, fcfg, ansi, caller, out, ret, fault, chain, si, wrote_open_bracket>>

InitFields ==
    /\ glog = GlogDefault
    /\ fcfg = FieldConfigDefault
    /\ ansi \in BOOLEAN
    /\ pc = "build_fields"
    /\ caller = "format_fields"
    /\ out = <<>>
    /\ ret = "none"
    /\ fault = "none"
    /\ chain = <<>>
    /\ si = 0
    /\ wrote_open_bracket = FALSE
    /\ fields = <<>>
    /\ vi = 0
    /\ visitor = NoVisitor
    /\ built = <<>>
    /\ srcloc = DefaultLoc
    /\ env = NoEnv
    /\ prev = NoPrev

NextFields ==
    \/ ShouldQuoteStrings
    \/ UseWhitespaceInField
    \/ Compact
    \/ MakeVisitor
    \/ RecordStr
    \/ RecordError
    \/ RecordDebug
    \/ Finish

SpecFields == InitFields /\ [][NextFields]_vars

Called(m) == \E i \in 1..Len(built) : built[i].m = m

\* C14: a GlogFields from default() on which use_whitespace_in_field was
\* never called renders a named field as `name:value`, without a space
\* after the colon.
C14_DefaultNoWhitespace ==
    VisitOk /\ ~Called("use_whitespace_in_field") =>
      \A i \in 1..Len(out) : out[i].k = "kv" => out[i].s = ":"

(***************************************************************************)
(* SpecPath: the location of FormatProcessData (format.rs:219-242, 278) is *)
(* written for every file and every setting of the path options.           *)
(***************************************************************************)
Files == {"None", <<"/", "a", "b", "c.rs">>, <<"examples", "yak.rs">>, <<"c.rs">>,
          <<"/", "ab", "c.rs">>, <<"a", "b", "c.rs">>}

Prefixes == {"None", <<"/", "a">>, <<"examples">>, <<"/", "x">>, <<"a", "b">>}

Locs == [file : Files, with_trimmed_directory : BOOLEAN, with_strip_prefix : Prefixes]

\* write!(f, " {file}:{line}", ..)
WriteLocation ==
    /\ pc = "location"
    /\ \E ok \in BOOLEAN :
         IF ok
         THEN /\ out' = Written(<<<<T("sp", " "),
                                    T("file", FormatFile(srcloc.file, srcloc.with_trimmed_directory,
                                                         srcloc.with_strip_prefix)),
                                    T("colon", ":"), T("line", Line)>>>>, 1)
              /\ ret' = "Ok" /\ fault' = fault
         ELSE out' = out /\ ret' = "Err" /\ fault' = "write"
    /\ pc' = "done"
    /\ UNCHANGED <<env, prev, built, srcloc, glog, fcfg, ansi, caller, chain, si, wrote_open_bracket, fields, vi, visitor>>

InitPath ==
    /\ glog = GlogDefault
    /\ fcfg = FieldConfigDefault
    /\ ansi = FALSE
    /\ pc = "location"
    /\ caller = "FormatProcessData"
    /\ out = <<>>
    /\ ret = "none"
    /\ fault = "none"
    /\ chain = <<>>
    /\ si = 0
    /\ wrote_open_bracket = FALSE
    /\ fields = <<>>
    /\ vi = 0
    /\ visitor = NoVisitor
    /\ built = <<>>
    /\ srcloc \in Locs
    /\ env = NoEnv
    /\ prev = NoPrev

NextPath == WriteLocation

SpecPath == InitPath /\ [][NextPath]_vars

\* the file written, "" when none was
FileWritten == LET fs == OfKinds(out, {"file"}) IN IF fs = <<>> THEN "" ELSE fs[1].s

FullText(file) == CASE file = <<"/", "a", "b", "c.rs">> -> "/a/b/c.rs"
                    [] file = <<"examples", "yak.rs">> -> "examples/yak.rs"
                    [] file = <<"c.rs">> -> "c.rs"
                    [] file = <<"/", "ab", "c.rs">> -> "/ab/c.rs"
                    [] file = <<"a", "b", "c.rs">> -> "a/b/c.rs"

\* the file without the prefix, for the files that start with it
StrippedText(file, prefix) ==
    CASE file = <<"/", "a", "b", "c.rs">> /\ prefix = <<"/", "a">> -> "b/c.rs"
      [] file = <<"examples", "yak.rs">> /\ prefix = <<"examples">> -> "yak.rs"
      [] file = <<"a", "b", "c.rs">> /\ prefix = <<"a", "b">> -> "c.rs"
      [] OTHER -> FullText(file)

\* C15: the file of the location is written verbatim in full mode, as its
\* last component in basename mode, and without the configured prefix in
\* strip-prefix mode, verbatim when it does not start with the prefix; an
\* absent file is written as the empty string.
C15_PathModes ==
    caller = "FormatProcessData" /\ pc = "done" /\ ret = "Ok" =>
      /\ Len(OfKinds(out, {"file"})) <= 1
      /\ IF srcloc.file = "None" THEN FileWritten = ""
         ELSE IF srcloc.with_trimmed_directory THEN FileWritten = srcloc.file[Len(srcloc.file)]
         ELSE IF srcloc.with_strip_prefix = "None" THEN FileWritten = FullText(srcloc.file)
         ELSE FileWritten = StrippedText(srcloc.file, srcloc.with_strip_prefix)

C15_Witness ==
    /\ caller = "FormatProcessData" /\ pc = "done" /\ ret = "Ok"
    /\ srcloc.file = <<"/", "a", "b", "c.rs">> /\ srcloc.with_strip_prefix = <<"/", "a">>
    /\ ~srcloc.with_trimmed_directory
    /\ FileWritten = "b/c.rs"

(***************************************************************************)
(* SpecBuilder: the builder methods of Glog (lib.rs:158-252), called in    *)
(* any order on Glog::default().                                           *)
(***************************************************************************)
with_timer_FromDefault(self, timer) == [GlogDefault EXCEPT !.timer = timer]

with_timer(self, timer) ==
    [timer |-> timer,
     with_thread_names |-> self.with_thread_names,
     with_target |-> self.with_target,
     with_span_context |-> self.with_span_context,
     with_span_names |-> self.with_span_names]

with_thread_names(self, value) == [self EXCEPT !.with_thread_names = value]

with_target(self, value) == [self EXCEPT !.with_target = value]

with_span_names(self, value) == [self EXCEPT !.with_span_names = value]

with_span_context(self, value) == [self EXCEPT !.with_span_context = value]

\* one builder call on the formatter: its result replaces the formatter
Build(result, call) ==
    /\ pc = "build"
    /\ Len(built) < MaxBuilderCalls
    /\ glog' = result
    /\ built' = Append(built, call)
    /\ UNCHANGED <<env, prev, srcloc, fcfg, ansi, pc, caller, out, ret, fault, chain, si, wrote_open_bracket,
                   fields, vi, visitor>>

WithTimer == \E t \in Timers : Build(with_timer(glog, t), Call("timer", t))

WithThreadNames == \E b \in BOOLEAN : Build(with_thread_names(glog, b), Call("with_thread_names", b))

WithTarget == \E b \in BOOLEAN : Build(with_target(glog, b), Call("with_target", b))

WithSpanNames == \E b \in BOOLEAN : Build(with_span_names(glog, b), Call("with_span_names", b))

WithSpanContext == \E b \in BOOLEAN : Build(with_span_context(glog, b), Call("with_span_context", b))

InitBuilder ==
    /\ glog = GlogDefault
    /\ fcfg = FieldConfigDefault
    /\ ansi = FALSE
    /\ pc = "build"
    /\ caller = "builder"
    /\ out = <<>>
    /\ ret = "none"
    /\ fault = "none"
    /\ chain = <<>>
    /\ si = 0
    /\ wrote_open_bracket = FALSE
    /\ fields = <<>>
    /\ vi = 0
    /\ visitor = NoVisitor
    /\ built = <<>>
    /\ srcloc = DefaultLoc
    /\ env = NoEnv
    /\ prev = NoPrev

NextBuilder == WithTimer \/ WithThreadNames \/ WithTarget \/ WithSpanNames \/ WithSpanContext

SpecBuilder == InitBuilder /\ [][NextBuilder]_vars

\* the calls that set option o, in call order
CallsOf(o) == SelectSeq(built, LAMBDA c : c.m = o)

\* the argument of the last call that set option o, else the given default
LastSet(o, default) == IF CallsOf(o) = <<>> THEN default ELSE CallsOf(o)[Len(CallsOf(o))].a

\* C16: after any sequence of builder calls on Glog::default(), every option
\* holds the argument of the last call of its own builder, or its default
\* (span context and span names on, thread names and target off, UtcTime)
\* when that builder was never called: no call changes another option.
C16_OptionsIndependent ==
    caller = "builder" =>
      /\ glog.timer = LastSet("timer", "UtcTime")
      /\ glog.with_thread_names = LastSet("with_thread_names", FALSE)
      /\ glog.with_target = LastSet("with_target", FALSE)
      /\ glog.with_span_names = LastSet("with_span_names", TRUE)
      /\ glog.with_span_context = LastSet("with_span_context", TRUE)

C16_Witness ==
    /\ caller = "builder"
    /\ built = <<Call("with_target", TRUE), Call("with_span_names", FALSE), Call("timer", "LocalTime")>>
    /\ glog.with_target /\ ~glog.with_span_names /\ glog.with_span_context
    /\ glog.timer = "LocalTime"

(***************************************************************************)
(* The brackets of the span group (lib.rs:303-352), under Spec.             *)
(***************************************************************************)
\* the positions of the writer that hold a token of kind k
Positions(k) == {i \in 1..Len(out) : out[i].k = k}

\* the first span of the chain that contributes, root first
FirstContributing ==
    LET contributing == SelectSeq(chain, IsContributing) IN contributing[1]

IsPrefix(a, b) == Len(a) <= Len(b) /\ \A j \in 1..Len(a) : a[j] = b[j]

\* C17: "[" is written at most once in a call, before anything else of the
\* span context and directly followed by the rendering of the first
\* contributing span; "] " is written only when "[" was, after everything
\* else of the span context, and once the span context is done it was
\* written exactly once if "[" was written and not at all otherwise.
C17_LazyBrackets ==
    caller = "format_event" =>
      /\ Cardinality(Positions("span_open")) <= 1
      /\ Cardinality(Positions("span_close")) <= 1
      /\ \A i \in Positions("span_open") :
           LET rest == Texts(SubSeq(out, i + 1, Len(out)))
           IN /\ SelectSeq(chain, IsContributing) # <<>>
              /\ \A j \in 1..(i - 1) : out[j].st \notin SpanSteps
              /\ IsPrefix(rest, SpanRendering(FirstContributing))
                 \/ IsPrefix(SpanRendering(FirstContributing), rest)
              /\ (SpanContextDone \/ Positions("span_close") # {})
                 => IsPrefix(SpanRendering(FirstContributing), rest)
      /\ \A i \in Positions("span_close") :
           /\ Positions("span_open") # {}
           /\ \A j \in 1..Len(out) : out[j].st \in SpanSteps => j <= i
      /\ SpanContextDone =>
           Cardinality(Positions("span_close")) = Cardinality(Positions("span_open"))

C17_Witness ==
    /\ FormatOk /\ glog.with_span_context /\ ~glog.with_span_names
    /\ Len(chain) = 3 /\ chain[1].fields = "" /\ chain[2].fields # "" /\ chain[3].fields = ""
    /\ Cardinality(Positions("span_open")) = 1
    /\ Cardinality(Positions("span_close")) = 1

(***************************************************************************)
(* The separator and the result of the field visitor (lib.rs:426-445,      *)
(* 477-523), under SpecVisitor.                                            *)
(***************************************************************************)
\* the visitor is about to be handed fields[vi]
Visiting == caller = "format_fields" /\ pc = "visit" /\ vi <= Len(fields)

\* the fields visited so far
Visited == SubSeq(fields, 1, vi - 1)

\* C18: the first token written has no separator before it, every separator
\* is a single ", " that is followed by a token, and while no write has
\* failed the output holds exactly one item per visited field that is not
\* log metadata; the visit of a `log.` field writes nothing and leaves
\* is_empty as it was, wherever the field stands.
C18_SeparatorDiscipline ==
    /\ [](caller = "format_fields" =>
            /\ out # <<>> => out[1].k # "sep"
            /\ \A i \in Positions("sep") :
                 out[i].s = ", " /\ i < Len(out) /\ out[i + 1].k # "sep"
            /\ pc = "visit" /\ visitor.result = "Ok" =>
                 /\ Len(Items(out)) = Len(Kept(Visited))
                 /\ Cardinality(Positions("sep")) =
                      (IF Kept(Visited) = <<>> THEN 0 ELSE Len(Kept(Visited)) - 1))
    /\ [][Visiting /\ IsMetadata(fields[vi]) =>
            out' = out /\ visitor'.is_empty = visitor.is_empty]_vars

C18_Witness ==
    /\ VisitOk
    /\ fields = <<LogMeta, StrField, LogMeta>>
    /\ out # <<>> /\ out[1].k # "sep" /\ Positions("sep") = {}

\* C19: once a write of the visitor has failed, no later record_str,
\* record_error or record_debug call writes anything, and finish returns
\* Err: later fields are skipped, not retried.
C19_FirstFailureWins ==
    [][caller = "format_fields" /\ pc = "visit" /\ fault = "write" =>
         /\ vi <= Len(fields) => out' = out
         /\ pc' = "done" => ret' = "Err"]_vars

C19_Witness ==
    /\ caller = "format_fields" /\ pc = "done" /\ ret = "Err" /\ fault = "write"
    /\ Len(fields) = 3 /\ vi = 4
    /\ fields[1].ty = "debug" /\ fields[2].ty = "str" /\ fields[3].ty = "error"
    /\ \A i \in 1..3 : ~IsMetadata(fields[i])
    /\ out = <<>>

\* C20: the stored result starts as Ok and is_empty as true; a result that
\* is Err stays Err through every visit, those of `log.` fields included; an
\* is_empty that is false stays false, and it turns false exactly when the
\* first field that is not log metadata is visited.
C20_StickyResult ==
    /\ caller = "format_fields" => visitor.result = "Ok" /\ visitor.is_empty
    /\ [][caller = "format_fields" =>
            /\ visitor.result = "Err" => visitor'.result = "Err"
            /\ ~visitor.is_empty => ~visitor'.is_empty
            /\ (visitor.is_empty /\ ~visitor'.is_empty)
               <=> (Visiting /\ visitor.is_empty /\ ~IsMetadata(fields[vi]))]_vars

C20_Witness ==
    /\ caller = "format_fields" /\ pc = "visit" /\ vi = 4
    /\ fields = <<LogMeta, DebugField, LogLine>>
    /\ visitor.result = "Err" /\ ~visitor.is_empty /\ fault = "write"

(***************************************************************************)
(* SpecTwice: format_event is called, and when the call has returned       *)
(* without a failed write it is called again on the same formatter, with   *)
(* the same event, span chain, field formatter, clock, thread and styling  *)
(* flag, on a writer that is empty again.  Nothing else is reset: what the *)
(* first call left in its locals is what the second call finds.            *)
(***************************************************************************)
Again ==
    /\ caller = "format_event" /\ pc = "done" /\ fault # "write"
    /\ ~prev.done
    /\ prev' = [done |-> TRUE, env |-> env, chain |-> chain, fields |-> fields, fcfg |-> fcfg,
                out |-> out, ret |-> ret]
    /\ pc' = "level"
    /\ out' = <<>>
    /\ ret' = "none"
    /\ fault' = "none"
    /\ UNCHANGED <<env, built, srcloc, glog, fcfg, ansi, caller, chain, si, wrote_open_bracket,
                   fields, vi, visitor>>

InitTwice ==
    /\ glog \in {g \in GlogConfigs : /\ g.with_span_context /\ g.with_thread_names
                                     /\ ~g.with_target /\ g.with_span_names}
    /\ fcfg = FieldConfigDefault
    /\ ansi = TRUE
    /\ pc = "level"
    /\ caller = "format_event"
    /\ out = <<>>
    /\ ret = "none"
    /\ fault = "none"
    /\ chain = <<>>
    /\ si = 0
    /\ wrote_open_bracket = FALSE
    /\ fields = <<>>
    /\ vi = 0
    /\ visitor = NoVisitor
    /\ built = <<>>
    /\ srcloc = DefaultLoc
    /\ env = NoEnv
    /\ prev = NoPrev

NextTwice == Next \/ Again

SpecTwice == InitTwice /\ [][NextTwice]_vars

\* the second call has returned, without a failed write
SecondDone == caller = "format_event" /\ prev.done /\ pc = "done" /\ fault # "write"

====
